---------------------------- MODULE Spec2Model ----------------------------
(***************************************************************************)
(* A model of the Hono API layer of next-hono-reactnative-demo: the        *)
(* OpenAPI server (hono-api/src/index.ts) and the plain server             *)
(* (unnamed/part_000), in front of the external collaborator: the auth     *)
(* provider and the row-secured profiles table (unnamed/part_002).         *)
(*                                                                         *)
(* One request is in flight at a time.  A handler is cut at its awaits of  *)
(* the collaborator: Receive runs it up to its first external call, each   *)
(* ...Return action is the collaborator's answer and the handler's code up *)
(* to its next external call or its response.  Between two steps the       *)
(* collaborator may change on its own (an access token expires).           *)
(*                                                                         *)
(* Requests to the routes that read a JSON body carry                      *)
(* Content-Type: application/json; their body is either text that does not *)
(* parse or a JSON object.                                                 *)
(***************************************************************************)
EXTENDS Integers, Sequences, FiniteSets, TLC

VARIABLES
  registered,  \* auth.users: the ids of the identities that exist
  password,    \* auth.users: the password each identity signed up with
  sessions,    \* the identities with a session (their refresh token works)
  live,        \* the identities whose access token the provider accepts
  profiles,    \* public.profiles: id -> row
  now,         \* the collaborator's clock
  req,         \* the request in flight: position, inputs, locals, response
  verified,    \* history: the tokens some earlier request verified with success
  parked,      \* a second request in flight, while the runtime runs the other
  ui           \* the browser: the pages' state and the handler that is running

vars ==
  <<registered, password, sessions, live, profiles, now, req, verified, parked, ui>>

----------------------------------------------------------------------------
(* Bounds *)

\* The clock stops here: no write to the store happens at MaxTime.
MaxTime == 2

----------------------------------------------------------------------------
(* Values *)

\* JavaScript null / a column that is NULL, for string-valued places.
NULL == "<null>"

\* No fields: the empty object {}.
EmptyObj == [f \in {} |-> NULL]

\* A JSON value of a request body, tagged with its JavaScript type; Undef is
\* what reading a missing field gives.
Str(s) == [t |-> "string", v |-> s]
Num(s) == [t |-> "number", v |-> s]
Undef == [t |-> "undefined", v |-> ""]

Users == {"u1", "u2"}

\* The access and refresh token the provider issues to an identity.
AccessToken(u) == IF u = "u1" THEN "t1" ELSE "t2"
RefreshToken(u) == IF u = "u1" THEN "r1" ELSE "r2"

\* u1 signs up by email; u2 is a phone identity and has no email.
EmailOf(u) == IF u = "u1" THEN "a@b.com" ELSE NULL

----------------------------------------------------------------------------
(* String operations, as JavaScript's *)

\* String.prototype.startsWith
StartsWith(s, p) == Len(s) >= Len(p) /\ SubSeq(s, 1, Len(p)) = p

\* String.prototype.indexOf, 1-based; 0 when p does not occur in s.
IndexOf(s, p) ==
  LET hits == {i \in 1..(Len(s) - Len(p) + 1) : SubSeq(s, i, i + Len(p) - 1) = p}
  IN  IF hits = {} THEN 0 ELSE CHOOSE i \in hits : \A j \in hits : i <= j

\* String.prototype.replace with a string pattern: the first occurrence only.
Replace(s, p, r) ==
  LET i == IndexOf(s, p)
  IN  IF i = 0 THEN s
      ELSE SubSeq(s, 1, i - 1) \o r \o SubSeq(s, i + Len(p), Len(s))

\* obj.f
Field(obj, f) == IF f \in DOMAIN obj THEN obj[f] ELSE Undef

\* JavaScript truthiness: undefined, the empty string and 0 are falsy.
Truthy(x) == x.t # "undefined" /\ x.v # "" /\ x.v # "0"

\* The object with only the fields of obj that are not undefined: what
\* JSON.stringify sends of an object literal.
Defined(obj) == [f \in {g \in DOMAIN obj : obj[g].t # "undefined"} |-> obj[f]]

\* `${x}` in a template literal: a string as it is, a number by its digits,
\* undefined as "undefined", null as "null".
TemplateString(x) ==
  IF x.t = "undefined" THEN "undefined"
  ELSE IF x.v = NULL THEN "null"
  ELSE x.v

\* new Date().toISOString(): a string that carries the instant.
toISOString(t) == [t |-> "string", v |-> t]

----------------------------------------------------------------------------
(* Requests and responses *)

\* The Authorization header: c.req.header('Authorization') is undefined when
\* the request has none.
NoHeader == [present |-> FALSE, val |-> ""]
Hdr(s) == [present |-> TRUE, val |-> s]

\* A request body: none, text that is not JSON, or a JSON object.
NoBody == [kind |-> "none", obj |-> EmptyObj]
Malformed == [kind |-> "malformed", obj |-> EmptyObj]
Json(o) == [kind |-> "json", obj |-> o]

NoResp == [status |-> 0, body |-> EmptyObj]

Idle ==
  [pc |-> "idle", server |-> "", route |-> "", header |-> NoHeader,
   body |-> NoBody, data |-> EmptyObj, user |-> <<>>, calls |-> <<>>,
   resp |-> NoResp]

NewReq(server, route, header, body) ==
  [Idle EXCEPT !.pc = "run", !.server = server, !.route = route,
               !.header = header, !.body = body]

\* c.json(body, status)
Respond(r, status, body) ==
  [r EXCEPT !.pc = "done", !.resp = [status |-> status, body |-> body]]

\* The handler awaits an operation of the collaborator: token is the bearer
\* token the client was created with ("" for an anonymous client), filter the
\* .eq('id', ...) value of a profiles query, payload the operation's argument.
Call(r, op, token, filter, payload) ==
  [r EXCEPT !.pc = "await",
            !.calls = Append(@, [op |-> op, token |-> token, filter |-> filter,
                                 payload |-> payload, ok |-> "pending",
                                 error |-> NULL])]

Last(q) == q[Len(q)]

\* The awaited call has answered, with a result or with an error message.
Answered(r, error) ==
  [r EXCEPT !.calls[Len(r.calls)].ok = IF error = NULL THEN "ok" ELSE "error",
            !.calls[Len(r.calls)].error = error]

Pending(op) ==
  /\ req.pc = "await"
  /\ Last(req.calls).op = op

----------------------------------------------------------------------------
(* Schema Registry: hono-api/src/index.ts *)

\* zod's z.string().email(), on the sample addresses: one "@" with text
\* before it and a dot inside the text after it.
IsEmail(s) ==
  \E i \in 2..(Len(s) - 3) :
    /\ SubSeq(s, i, i) = "@"
    /\ \A j \in 1..Len(s) : SubSeq(s, j, j) = "@" => j = i
    /\ \E k \in (i + 2)..(Len(s) - 1) : SubSeq(s, k, k) = "."

MinPasswordLength == 6

\* GreetRequestSchema.safeParse(obj).success
GreetRequestSchema(obj) ==
  /\ "name" \in DOMAIN obj
  /\ obj["name"].t = "string"
  /\ obj["name"].v # NULL

\* AuthRequestSchema.safeParse(obj).success
AuthRequestSchema(obj) ==
  /\ Field(obj, "email").t = "string"
  /\ IsEmail(Field(obj, "email").v)
  /\ Field(obj, "password").t = "string"
  /\ Len(Field(obj, "password").v) >= MinPasswordLength

\* ProfileUpdateRequestSchema.safeParse(obj).success: both fields optional.
ProfileUpdateRequestSchema(obj) ==
  /\ Field(obj, "name").t \in {"string", "undefined"}
  /\ Field(obj, "bio").t \in {"string", "undefined"}

\* A z.object() keeps the declared keys only.
Strip(obj, keys) == [f \in DOMAIN obj \cap keys |-> obj[f]]

----------------------------------------------------------------------------
(* The collaborator: the auth provider *)

NoAnswer == [error |-> NULL, user |-> <<>>, session |-> <<>>]

ProviderUser(u) == [id |-> u, email |-> EmailOf(u)]

ProviderSession(u) ==
  [access_token |-> AccessToken(u), refresh_token |-> RefreshToken(u),
   expires_at |-> NULL]

\* auth.getUser() of a client created with "Authorization: Bearer <token>".
GetUserAnswer(token, fail) ==
  LET owners == {u \in registered \cap live : AccessToken(u) = token}
  IN  IF fail THEN [NoAnswer EXCEPT !.error = "fetch failed"]
      ELSE IF owners = {} THEN [NoAnswer EXCEPT !.error = "invalid JWT"]
      ELSE [NoAnswer EXCEPT !.user = <<ProviderUser(CHOOSE u \in owners : TRUE)>>]

\* The identity auth.signUp(creds) creates, if any.
SignUpCreates(creds, fail) ==
  IF \/ fail
     \/ Field(creds, "email").t # "string"
     \/ Field(creds, "password").t # "string"
     \/ Len(Field(creds, "password").v) < MinPasswordLength
  THEN {}
  ELSE {u \in Users \ registered : EmailOf(u) = Field(creds, "email").v}

\* auth.signUp(creds)
SignUpAnswer(creds, fail) ==
  LET new == SignUpCreates(creds, fail)
  IN  IF new # {}
      THEN LET u == CHOOSE x \in new : TRUE
           IN  [NoAnswer EXCEPT !.user = <<ProviderUser(u)>>,
                                !.session = <<ProviderSession(u)>>]
      ELSE IF fail THEN [NoAnswer EXCEPT !.error = "fetch failed"]
      ELSE IF Field(creds, "email").t # "string" \/ ~IsEmail(Field(creds, "email").v)
      THEN [NoAnswer EXCEPT !.error = "Unable to validate email address: invalid format"]
      ELSE IF \/ Field(creds, "password").t # "string"
              \/ Len(Field(creds, "password").v) < MinPasswordLength
      THEN [NoAnswer EXCEPT !.error = "Password should be at least 6 characters"]
      ELSE [NoAnswer EXCEPT !.error = "User already registered"]

\* The identity auth.signInWithPassword(creds) opens a session for, if any.
SignInOpens(creds, fail) ==
  IF fail \/ Field(creds, "email").t # "string" \/ Field(creds, "password").t # "string"
  THEN {}
  ELSE {u \in registered : /\ EmailOf(u) = Field(creds, "email").v
                           /\ password[u] = Field(creds, "password").v}

\* auth.signInWithPassword(creds)
SignInAnswer(creds, fail) ==
  LET who == SignInOpens(creds, fail)
  IN  IF who # {}
      THEN LET u == CHOOSE x \in who : TRUE
           IN  [NoAnswer EXCEPT !.user = <<ProviderUser(u)>>,
                                !.session = <<ProviderSession(u)>>]
      ELSE IF fail THEN [NoAnswer EXCEPT !.error = "fetch failed"]
      ELSE [NoAnswer EXCEPT !.error = "Invalid login credentials"]

\* The identity auth.refreshSession({refresh_token}) renews the session of.
RefreshRenews(args, fail) ==
  IF fail \/ Field(args, "refresh_token").t # "string"
  THEN {}
  ELSE {u \in registered \cap sessions :
          RefreshToken(u) = Field(args, "refresh_token").v}

\* auth.refreshSession({refresh_token})
RefreshAnswer(args, fail) ==
  LET who == RefreshRenews(args, fail)
  IN  IF who # {}
      THEN LET u == CHOOSE x \in who : TRUE
           IN  [NoAnswer EXCEPT !.user = <<ProviderUser(u)>>,
                                !.session = <<ProviderSession(u)>>]
      ELSE IF fail THEN [NoAnswer EXCEPT !.error = "fetch failed"]
      ELSE [NoAnswer EXCEPT !.error = "Invalid Refresh Token: Refresh Token Not Found"]

\* The identities auth.signOut() of a client with this bearer token ends the
\* session of.
SignOutEnds(token, fail) ==
  IF fail THEN {} ELSE {u \in registered \cap live : AccessToken(u) = token}

\* auth.signOut()
SignOutAnswer(token, fail) ==
  IF fail THEN [NoAnswer EXCEPT !.error = "fetch failed"] ELSE NoAnswer

----------------------------------------------------------------------------
(* The collaborator: public.profiles, unnamed/part_002 *)

\* INSERT INTO public.profiles (id) VALUES (NEW.id), with the column defaults.
NewProfile(u, t) ==
  [id |-> u, name |-> NULL, bio |-> NULL, created_at |-> t, updated_at |-> t]

\* auth.uid() of a query sent with this bearer token: the empty set when the
\* token is not accepted.
Uid(token) == {u \in registered \cap live : AccessToken(u) = token}

\* The rows a SELECT with .eq('id', filter) sees under the policy
\* "Users can read own profile": USING (auth.uid() = id).
SelectRows(token, filter) ==
  {u \in DOMAIN profiles : u = filter /\ u \in Uid(token)}

\* The rows an UPDATE with .eq('id', filter) changes under the policy
\* "Users can update own profile": USING and WITH CHECK (auth.uid() = id).
UpdateRows(token, filter) ==
  {u \in DOMAIN profiles : u = filter /\ u \in Uid(token)}

\* The update without the trigger profiles_updated_at: updated_at keeps its
\* value.
UpdatedRow_noTrigger(row, payload, t) ==
  [id |-> row.id,
   name |-> IF "name" \in DOMAIN payload THEN payload["name"].v ELSE row.name,
   bio |-> IF "bio" \in DOMAIN payload THEN payload["bio"].v ELSE row.bio,
   created_at |-> row.created_at,
   updated_at |-> row.updated_at]

\* SET <the payload's columns>, then the trigger profiles_updated_at:
\* NEW.updated_at = now().
UpdatedRow(row, payload, t) ==
  [id |-> row.id,
   name |-> IF "name" \in DOMAIN payload THEN payload["name"].v ELSE row.name,
   bio |-> IF "bio" \in DOMAIN payload THEN payload["bio"].v ELSE row.bio,
   created_at |-> row.created_at,
   updated_at |-> t]

\* The rows a DELETE with .eq('id', filter) removes under the policy
\* "Users can delete own profile": USING (auth.uid() = id).
DeleteRows(token, filter) ==
  {u \in DOMAIN profiles : u = filter /\ u \in Uid(token)}

\* Whether an INSERT of a row with this id passes the policy
\* "Users can create own profile", WITH CHECK (auth.uid() = id), and the
\* PRIMARY KEY of the table.
InsertAllowed(token, id) ==
  /\ id \in Uid(token)
  /\ id \notin DOMAIN profiles

\* .single(): exactly one row, or an error.
StoreAnswer(rows, table, fail) ==
  IF fail THEN [error |-> "fetch failed", data |-> <<>>]
  ELSE IF Cardinality(rows) # 1
  THEN [error |-> "JSON object requested, multiple (or no) rows returned",
        data |-> <<>>]
  ELSE [error |-> NULL, data |-> <<table[CHOOSE u \in rows : TRUE]>>]

----------------------------------------------------------------------------
(* The OpenAPI server: hono-api/src/index.ts *)

\* A store client created with the anon key only, as the signup handler's.
createAuthenticatedClient_anon(authHeader) == ""

\* createAuthenticatedClient: the bearer token of the client it creates.
createAuthenticatedClient(authHeader) ==
  IF ~authHeader.present THEN "" ELSE Replace(authHeader.val, "Bearer ", "")

\* verifyAuth without its startsWith test: only a missing header is rejected.
verifyAuthRejects_presenceOnly(authHeader) ==
  \/ ~authHeader.present
  \/ authHeader.val = ""

\* verifyAuth, its first lines: the header is rejected without a call.
verifyAuthRejects(authHeader) ==
  \/ ~authHeader.present
  \/ authHeader.val = ""
  \/ ~StartsWith(authHeader.val, "Bearer ")

\* String.prototype.replaceAll: every occurrence.
RECURSIVE ReplaceAll(_, _, _)
ReplaceAll(s, p, r) ==
  IF IndexOf(s, p) = 0 THEN s
  ELSE LET i == IndexOf(s, p)
       IN  SubSeq(s, 1, i - 1) \o r
             \o ReplaceAll(SubSeq(s, i + Len(p), Len(s)), p, r)

\* verifyAuth taking the token with replaceAll.
verifyAuthToken_replaceAll(authHeader) == ReplaceAll(authHeader.val, "Bearer ", "")

\* verifyAuth: the token of the client whose auth.getUser() it awaits.
verifyAuthToken(authHeader) == Replace(authHeader.val, "Bearer ", "")

\* verifyAuth without its own error: a failed lookup is returned as no user
\* and no error.
verifyAuth_noError(ans) ==
  IF ans.error # NULL \/ ans.user = <<>>
  THEN [user |-> <<>>, error |-> NULL]
  ELSE [user |-> <<[id |-> ans.user[1].id,
                    email |-> IF ans.user[1].email \in {NULL, ""}
                              THEN "" ELSE ans.user[1].email]>>,
        error |-> NULL]

\* verifyAuth returning the provider's email as it is, null included.
verifyAuth_rawEmail(ans) ==
  IF ans.error # NULL \/ ans.user = <<>>
  THEN [user |-> <<>>, error |-> "Invalid or expired token"]
  ELSE [user |-> <<[id |-> ans.user[1].id, email |-> ans.user[1].email]>>,
        error |-> NULL]

\* verifyAuth, after the provider's answer.
verifyAuth(ans) ==
  IF ans.error # NULL \/ ans.user = <<>>
  THEN [user |-> <<>>, error |-> "Invalid or expired token"]
  ELSE [user |-> <<[id |-> ans.user[1].id,
                    email |-> IF ans.user[1].email \in {NULL, ""}
                              THEN "" ELSE ans.user[1].email]>>,
        error |-> NULL]

OpenApiRoutes ==
  {"hello", "greet", "signup", "login", "me", "data", "getProfile", "putProfile"}

\* The routes createRoute declares a JSON request body for.
OpenApiBodyRoutes == {"greet", "signup", "login", "putProfile"}

\* The request body schema of a route.
RouteSchema(route, obj) ==
  CASE route = "putProfile" -> ProfileUpdateRequestSchema(obj)
    [] route = "greet" -> GreetRequestSchema(obj)
    [] OTHER -> AuthRequestSchema(obj)

RouteKeys(route) ==
  CASE route = "putProfile" -> {"name", "bio"}
    [] route = "greet" -> {"name"}
    [] OTHER -> {"email", "password"}

\* The handler of helloRoute.
OpenApiHello(r) ==
  Respond(r, 200, [message |-> "Hello from Hono!", timestamp |-> toISOString(now)])

\* The handler of greetRoute.
OpenApiGreet(r) ==
  Respond(r, 200, [message |-> "Hello, " \o TemplateString(Field(r.data, "name")) \o "!",
                   timestamp |-> toISOString(now)])

\* The handlers of the protected routes start alike: the header is read and
\* verifyAuth called.
OpenApiProtected(r) ==
  IF verifyAuthRejects(r.header)
  THEN Respond(r, 401, [error |-> "Missing or invalid authorization header"])
  ELSE Call(r, "getUser", verifyAuthToken(r.header), "", EmptyObj)

\* signupRoute and loginRoute, up to the provider call.
OpenApiAuth(r) ==
  Call(r, IF r.route = "signup" THEN "signUp" ELSE "signIn", "", "",
       [email |-> Field(r.data, "email"), password |-> Field(r.data, "password")])

OpenApiHandler(r) ==
  CASE r.route = "hello" -> OpenApiHello(r)
    [] r.route = "greet" -> OpenApiGreet(r)
    [] r.route \in {"signup", "login"} -> OpenApiAuth(r)
    [] OTHER -> OpenApiProtected(r)

\* app.openapi without the body validator on PUT /api/profile: the handler,
\* and with it verifyAuth and the update, runs on any body.
OpenApiDispatch_unvalidatedPut(route, header, body) ==
  LET r == NewReq("openapi", route, header, body)
  IN  IF route \notin OpenApiBodyRoutes THEN OpenApiHandler(r)
      ELSE IF route = "putProfile"
      THEN OpenApiHandler([r EXCEPT !.data = Strip(body.obj, RouteKeys(route))])
      ELSE IF body.kind # "json"
      THEN Respond(r, 400, [text |-> "Malformed JSON in request body"])
      ELSE IF ~RouteSchema(route, body.obj)
      THEN Respond(r, 400, [success |-> FALSE, error |-> [name |-> "ZodError"]])
      ELSE OpenApiHandler([r EXCEPT !.data = Strip(body.obj, RouteKeys(route))])

\* app.openapi(route, handler): the validator of the declared body runs before
\* the handler and answers 400 itself.
OpenApiDispatch(route, header, body) ==
  LET r == NewReq("openapi", route, header, body)
  IN  IF route \notin OpenApiBodyRoutes THEN OpenApiHandler(r)
      ELSE IF body.kind # "json"
      THEN Respond(r, 400, [text |-> "Malformed JSON in request body"])
      ELSE IF ~RouteSchema(route, body.obj)
      THEN Respond(r, 400, [success |-> FALSE, error |-> [name |-> "ZodError"]])
      ELSE OpenApiHandler([r EXCEPT !.data = Strip(body.obj, RouteKeys(route))])

\* The identity kept in one place for all requests: the filter is the id of
\* whichever request resolved an identity, the other one first.
ProfileFilter_ambient(r, user) ==
  IF parked.user # <<>> THEN parked.user[1].id ELSE user.id

\* A filter that takes the id from the request body when it has one.
ProfileFilter_fromBody(r, user) ==
  IF "id" \in DOMAIN r.body.obj THEN r.body.obj["id"].v ELSE user.id

\* The id the profile handlers filter profiles by: .eq('id', user.id)
ProfileFilter(r, user) == user.id

\* An update object that sends null for a field the body does not have.
ProfilePatch_nulls(data) ==
  [f \in {"name", "bio"} |-> IF f \in DOMAIN data THEN data[f] ELSE Str(NULL)]

\* The object the update handler passes to .update(): { name, bio } of the
\* validated body, as it is sent.
ProfilePatch(data) ==
  Defined([name |-> Field(data, "name"), bio |-> Field(data, "bio")])

\* A protected handler after verifyAuth: 401, the response of me and data, or
\* the profiles query of the profile routes.
OpenApiVerified(r, ans, t) ==
  LET v == verifyAuth(ans)
  IN  IF v.error # NULL \/ v.user = <<>>
      THEN Respond(r, 401, [error |-> IF v.error # NULL THEN v.error ELSE "Unauthorized"])
      ELSE LET user == v.user[1]
               r1 == [r EXCEPT !.user = v.user]
           IN  CASE r.route = "me" ->
                      Respond(r1, 200, [message |-> "You are authenticated!",
                                        user |-> user, timestamp |-> t])
                 [] r.route = "data" ->
                      Respond(r1, 200,
                        [message |-> "This is protected data",
                         data |-> [secretMessage |-> "Hello " \o user.email
                                      \o ", this is your secret data!",
                                   items |-> <<"item1", "item2", "item3">>],
                         timestamp |-> t])
                 [] r.route = "getProfile" ->
                      Call(r1, "select", createAuthenticatedClient(r.header),
                           ProfileFilter(r, user), EmptyObj)
                 [] OTHER ->
                      Call(r1, "update", createAuthenticatedClient(r.header),
                           ProfileFilter(r, user), ProfilePatch(r.data))

\* The profile handlers answering a store error with 500.
OpenApiStored_500(r, ans) ==
  IF ans.error # NULL THEN Respond(r, 500, [error |-> ans.error])
  ELSE IF r.route = "getProfile" THEN Respond(r, 200, [profile |-> ans.data[1]])
  ELSE Respond(r, 200, [message |-> "Profile updated successfully",
                        profile |-> ans.data[1]])

\* getProfileRoute and updateProfileRoute after the query.
OpenApiStored(r, ans) ==
  IF ans.error # NULL THEN Respond(r, 400, [error |-> ans.error])
  ELSE IF r.route = "getProfile" THEN Respond(r, 200, [profile |-> ans.data[1]])
  ELSE Respond(r, 200, [message |-> "Profile updated successfully",
                        profile |-> ans.data[1]])

\* signupRoute trying auth.signUp a second time when the first attempt fails.
OpenApiSignedUp_retry(r, ans) ==
  IF ans.error # NULL /\ Len(r.calls) < 2
  THEN Call(r, "signUp", "", "", Last(r.calls).payload)
  ELSE IF ans.error # NULL THEN Respond(r, 400, [error |-> ans.error])
  ELSE Respond(r, 200, [message |-> "Account created successfully",
                        user |-> ans.user, session |-> ans.session])

\* signupRoute after auth.signUp.
OpenApiSignedUp(r, ans) ==
  IF ans.error # NULL THEN Respond(r, 400, [error |-> ans.error])
  ELSE Respond(r, 200, [message |-> "Account created successfully",
                        user |-> ans.user, session |-> ans.session])

\* loginRoute answering a failure as signupRoute does, with 400.
OpenApiSignedIn_400(r, ans) ==
  IF ans.error # NULL THEN Respond(r, 400, [error |-> ans.error])
  ELSE Respond(r, 200, [message |-> "Login successful",
                        user |-> ans.user, session |-> ans.session])

\* loginRoute after auth.signInWithPassword.
OpenApiSignedIn(r, ans) ==
  IF ans.error # NULL THEN Respond(r, 401, [error |-> ans.error])
  ELSE Respond(r, 200, [message |-> "Login successful",
                        user |-> ans.user, session |-> ans.session])

----------------------------------------------------------------------------
(* The plain server: unnamed/part_000 *)

PlainRoutes ==
  {"hello", "greet", "signup", "login", "refresh", "logout", "me", "data"}

\* authMiddleware, its first lines: the header is rejected without a call.
authMiddlewareRejects(authHeader) ==
  \/ ~authHeader.present
  \/ authHeader.val = ""
  \/ ~StartsWith(authHeader.val, "Bearer ")

\* authMiddleware: the token of the client whose auth.getUser() it awaits.
authMiddlewareToken(authHeader) == Replace(authHeader.val, "Bearer ", "")

\* authMiddleware, up to the provider call.
authMiddleware(r) ==
  IF authMiddlewareRejects(r.header)
  THEN Respond(r, 401, [error |-> "Missing or invalid authorization header"])
  ELSE Call(r, "getUser", authMiddlewareToken(r.header), "", EmptyObj)

\* The signup and login handlers, up to the provider call: a body that does
\* not parse throws inside the try.
PlainAuth(r) ==
  IF r.body.kind # "json" THEN Respond(r, 400, [error |-> "Invalid request body"])
  ELSE IF ~Truthy(Field(r.body.obj, "email")) \/ ~Truthy(Field(r.body.obj, "password"))
  THEN Respond(r, 400, [error |-> "Email and password are required"])
  ELSE Call(r, IF r.route = "signup" THEN "signUp" ELSE "signIn", "", "",
            [email |-> Field(r.body.obj, "email"),
             password |-> Field(r.body.obj, "password")])

\* The refresh handler, up to the provider call.
PlainRefresh(r) ==
  IF r.body.kind # "json" THEN Respond(r, 400, [error |-> "Invalid request body"])
  ELSE IF ~Truthy(Field(r.body.obj, "refresh_token"))
  THEN Respond(r, 400, [error |-> "Refresh token is required"])
  ELSE Call(r, "refreshSession", "", "",
            [refresh_token |-> Field(r.body.obj, "refresh_token")])

\* The hello handler.
PlainHello(r) ==
  Respond(r, 200, [message |-> "Hello from Hono!", timestamp |-> toISOString(now)])

\* The greet handler: c.req.json() is awaited outside any try, so a body that
\* does not parse throws out of the handler and the framework's error handler
\* answers 500; a parsed body is used as it is.
PlainGreet(r) ==
  IF r.body.kind # "json" THEN Respond(r, 500, [text |-> "Internal Server Error"])
  ELSE Respond(r, 200,
         [message |-> "Hello, " \o TemplateString(Field(r.body.obj, "name")) \o "!",
          timestamp |-> toISOString(now)])

\* The logout route registered without authMiddleware.
PlainDispatch_logoutUnguarded(route, header, body) ==
  LET r == NewReq("plain", route, header, body)
  IN  CASE route = "hello" -> PlainHello(r)
        [] route = "greet" -> PlainGreet(r)
        [] route \in {"signup", "login"} -> PlainAuth(r)
        [] route = "refresh" -> PlainRefresh(r)
        [] route = "logout" ->
             Call(r, "signOut",
                  IF ~r.header.present THEN ""
                  ELSE Replace(r.header.val, "Bearer ", ""),
                  "", EmptyObj)
        [] OTHER -> authMiddleware(r)

PlainDispatch(route, header, body) ==
  LET r == NewReq("plain", route, header, body)
  IN  CASE route = "hello" -> PlainHello(r)
        [] route = "greet" -> PlainGreet(r)
        [] route \in {"signup", "login"} -> PlainAuth(r)
        [] route = "refresh" -> PlainRefresh(r)
        [] OTHER -> authMiddleware(r)

\* authMiddleware after the provider's answer, then next(): the handler of
\* the route.
PlainVerified(r, ans, t) ==
  IF ans.error # NULL \/ ans.user = <<>>
  THEN Respond(r, 401, [error |-> "Invalid or expired token"])
  ELSE LET user == [id |-> ans.user[1].id,
                    email |-> IF ans.user[1].email \in {NULL, ""}
                              THEN "" ELSE ans.user[1].email]
           r1 == [r EXCEPT !.user = <<user>>]
       IN  CASE r.route = "me" ->
                  Respond(r1, 200, [message |-> "You are authenticated!",
                                    user |-> user, timestamp |-> t])
             [] r.route = "data" ->
                  Respond(r1, 200,
                    [message |-> "This is protected data",
                     data |-> [secretMessage |-> "Hello " \o user.email
                                  \o ", this is your secret data!",
                               items |-> <<"item1", "item2", "item3">>],
                     timestamp |-> t])
             [] OTHER ->
                  Call(r1, "signOut",
                       IF ~r.header.present THEN ""
                       ELSE Replace(r.header.val, "Bearer ", ""),
                       "", EmptyObj)

\* The signup handler after auth.signUp.
PlainSignedUp(r, ans) ==
  IF ans.error # NULL THEN Respond(r, 400, [error |-> ans.error])
  ELSE Respond(r, 200, [message |-> "Account created successfully",
                        user |-> ans.user, session |-> ans.session])

\* The login handler after auth.signInWithPassword.
PlainSignedIn(r, ans) ==
  IF ans.error # NULL THEN Respond(r, 401, [error |-> ans.error])
  ELSE Respond(r, 200, [message |-> "Login successful",
                        user |-> ans.user, session |-> ans.session])

\* The refresh handler after auth.refreshSession.
PlainRefreshed(r, ans) ==
  IF ans.error # NULL THEN Respond(r, 401, [error |-> ans.error])
  ELSE Respond(r, 200, [message |-> "Token refreshed successfully",
                        session |-> ans.session])

\* The logout handler after auth.signOut.
PlainSignedOut(r, ans) ==
  IF ans.error # NULL THEN Respond(r, 400, [error |-> ans.error])
  ELSE Respond(r, 200, [message |-> "Logout successful"])

----------------------------------------------------------------------------
(* The requests tried *)

Headers ==
  {NoHeader, Hdr(""), Hdr("t2"), Hdr("Basic t2"), Hdr("Bearer t1"),
   Hdr("Bearer t2"), Hdr("Bearer tx"), Hdr("Bearer Bearer t2")}

AuthBodies ==
  {Malformed, Json(EmptyObj),
   Json([email |-> Str("a@b.com")]),
   Json([email |-> Str("a@b.com"), password |-> Str("")]),
   Json([email |-> Str("a@b.com"), password |-> Str("abcde")]),
   Json([email |-> Str("a@b.com"), password |-> Str("abcdef")]),
   Json([email |-> Str("a@b.com"), password |-> Str("secret1")]),
   Json([email |-> Str("nobody"), password |-> Str("abcdef")]),
   Json([email |-> Num("5"), password |-> Str("abcdef")])}

RefreshBodies ==
  {Malformed, Json(EmptyObj), Json([refresh_token |-> Str("r1")]),
   Json([refresh_token |-> Str("r2")]), Json([refresh_token |-> Str("rx")])}

ProfileBodies ==
  {Malformed, Json(EmptyObj),
   Json([name |-> Str("Alice")]),
   Json([bio |-> Str("hi")]),
   Json([name |-> Str("Bob"), bio |-> Str("hi")]),
   Json([name |-> Num("5")]),
   Json([name |-> Str("Bob"), id |-> Str("u1")]),
   Json([name |-> Str("Bob"), id |-> Str("u2")])}

GreetBodies ==
  {Malformed, Json(EmptyObj),
   Json([name |-> Str("World")]),
   Json([name |-> Str("")]),
   Json([name |-> Num("5")]),
   Json([name |-> Str("World"), id |-> Str("u1")])}

\* What a request to a route without a declared body may carry all the same.
StrayBodies == {NoBody, Malformed, Json([id |-> Str("u1")])}

Servers == {"openapi", "plain"}

RoutesOf(server) == IF server = "openapi" THEN OpenApiRoutes ELSE PlainRoutes

HeadersOf(route) ==
  IF route \in {"hello", "signup", "login", "refresh"}
  THEN {NoHeader, Hdr("Bearer t2")}
  ELSE Headers

BodiesOf(route) ==
  CASE route \in {"signup", "login"} -> AuthBodies
    [] route = "refresh" -> RefreshBodies
    [] route = "putProfile" -> ProfileBodies
    [] route = "greet" -> GreetBodies
    [] OTHER -> StrayBodies

\* The collaborator may fail to answer any call; a write needs the clock to
\* have room for its time.
Fails == BOOLEAN
WriteFails == IF now < MaxTime THEN BOOLEAN ELSE {TRUE}

----------------------------------------------------------------------------
(* The frontend: next-frontend/app *)

\* The pages as they mount: the form fields empty, no busy flag set, no
\* handler running, nobody logged in.
UiInit ==
  [handler |-> "none", session |-> <<>>, name |-> "", bio |-> "",
   saving |-> FALSE, loading |-> FALSE, apiLoading |-> FALSE,
   message |-> NULL, loaded |-> <<>>, edited |-> FALSE]

\* createAuthHeaders(token)
createAuthHeaders(token) == Hdr("Bearer " \o token)

\* x || '' on a string or null.
OrEmpty(x) == IF x = NULL \/ x = "" THEN "" ELSE x

\* The headers of the home page's protected fetches:
\* session?.access_token ? createAuthHeaders(session.access_token) : {}
HomeHeaders(session) ==
  IF session # <<>> /\ session[1] # "" THEN createAuthHeaders(session[1])
  ELSE NoHeader

\* setProfile(data.profile): of the row the page keeps, what it shows.
Shown(row) == [id |-> row.id, name |-> row.name, bio |-> row.bio]

\* What the user types into the profile form, and into the auth form.
FormNames == {"", "Alice"}
FormBios == {"", "hi"}
FormCredentials ==
  {[email |-> Str("a@b.com"), password |-> Str("abcdef")],
   [email |-> Str("a@b.com"), password |-> Str("abcde")]}

\* The routes behind the home page's buttons: fetchHello, fetchProtectedData,
\* fetchSecretData, fetchProfile.
HomeRoutes == {"hello", "me", "data", "getProfile"}

----------------------------------------------------------------------------
(* The state machine *)

Init ==
  /\ registered = {"u2"}
  /\ password = [u \in Users |-> ""]
  /\ sessions = {"u2"}
  /\ live = {"u2"}
  /\ profiles = [u \in {"u2"} |-> NewProfile(u, 0)]
  /\ now = 0
  /\ req = Idle
  /\ verified = {}
  /\ parked = Idle
  /\ ui = UiInit

\* A request arrives and its handler runs up to its first await.
Receive(server, route, header, body) ==
  /\ req.pc = "idle"
  /\ req' = IF server = "openapi" THEN OpenApiDispatch(route, header, body)
            ELSE PlainDispatch(route, header, body)
  /\ UNCHANGED <<registered, password, sessions, live, profiles, now, verified>>
  /\ UNCHANGED <<parked, ui>>

\* auth.getUser() answered from a cache of the tokens that verified before.
GetUserReturn_cached(fail) ==
  /\ Pending("getUser")
  /\ LET c == Last(req.calls)
         ans == IF c.token \in verified
                THEN [NoAnswer EXCEPT !.user =
                        <<ProviderUser(CHOOSE u \in Users : AccessToken(u) = c.token)>>]
                ELSE GetUserAnswer(c.token, fail)
         r == Answered(req, ans.error)
     IN  /\ req' = IF req.server = "openapi" THEN OpenApiVerified(r, ans, now)
                   ELSE PlainVerified(r, ans, now)
         /\ verified' = IF ans.error = NULL /\ ans.user # <<>>
                        THEN verified \cup {c.token} ELSE verified
  /\ UNCHANGED <<registered, password, sessions, live, profiles, now>>
  /\ UNCHANGED <<parked, ui>>

\* auth.getUser() answers and the handler goes on.
GetUserReturn(fail) ==
  /\ Pending("getUser")
  /\ LET c == Last(req.calls)
         ans == GetUserAnswer(c.token, fail)
         r == Answered(req, ans.error)
     IN  /\ req' = IF req.server = "openapi" THEN OpenApiVerified(r, ans, now)
                   ELSE PlainVerified(r, ans, now)
         /\ verified' = IF ans.error = NULL /\ ans.user # <<>>
                        THEN verified \cup {c.token} ELSE verified
  /\ UNCHANGED <<registered, password, sessions, live, profiles, now>>
  /\ UNCHANGED <<parked, ui>>

\* auth.signUp() answers: a new identity gets its profiles row from the
\* trigger on_auth_user_created.
SignUpReturn(fail) ==
  /\ Pending("signUp")
  /\ LET c == Last(req.calls)
         new == SignUpCreates(c.payload, fail)
         ans == SignUpAnswer(c.payload, fail)
         r == Answered(req, ans.error)
     IN  /\ registered' = registered \cup new
         /\ password' = [u \in Users |-> IF u \in new THEN c.payload.password.v
                                         ELSE password[u]]
         /\ sessions' = sessions \cup new
         /\ live' = live \cup new
         /\ now' = IF new = {} THEN now ELSE now + 1
         /\ profiles' = [u \in DOMAIN profiles \cup new |->
                           IF u \in new THEN NewProfile(u, now + 1) ELSE profiles[u]]
         /\ req' = IF req.server = "openapi" THEN OpenApiSignedUp(r, ans)
                   ELSE PlainSignedUp(r, ans)
  /\ UNCHANGED verified
  /\ UNCHANGED <<parked, ui>>

\* auth.signInWithPassword() answers.
SignInReturn(fail) ==
  /\ Pending("signIn")
  /\ LET c == Last(req.calls)
         who == SignInOpens(c.payload, fail)
         ans == SignInAnswer(c.payload, fail)
         r == Answered(req, ans.error)
     IN  /\ sessions' = sessions \cup who
         /\ live' = live \cup who
         /\ req' = IF req.server = "openapi" THEN OpenApiSignedIn(r, ans)
                   ELSE PlainSignedIn(r, ans)
  /\ UNCHANGED <<registered, password, profiles, now, verified>>
  /\ UNCHANGED <<parked, ui>>

\* auth.refreshSession() answers.
RefreshReturn(fail) ==
  /\ Pending("refreshSession")
  /\ LET c == Last(req.calls)
         who == RefreshRenews(c.payload, fail)
         ans == RefreshAnswer(c.payload, fail)
     IN  /\ live' = live \cup who
         /\ req' = PlainRefreshed(Answered(req, ans.error), ans)
  /\ UNCHANGED <<registered, password, sessions, profiles, now, verified>>
  /\ UNCHANGED <<parked, ui>>

\* auth.signOut() answers.
SignOutReturn(fail) ==
  /\ Pending("signOut")
  /\ LET c == Last(req.calls)
         who == SignOutEnds(c.token, fail)
         ans == SignOutAnswer(c.token, fail)
     IN  /\ sessions' = sessions \ who
         /\ live' = live \ who
         /\ req' = PlainSignedOut(Answered(req, ans.error), ans)
  /\ UNCHANGED <<registered, password, profiles, now, verified>>
  /\ UNCHANGED <<parked, ui>>

\* from('profiles').select('*').eq('id', ...).single() answers.
SelectReturn(fail) ==
  /\ Pending("select")
  /\ LET c == Last(req.calls)
         ans == StoreAnswer(SelectRows(c.token, c.filter), profiles, fail)
     IN  req' = OpenApiStored(Answered(req, ans.error), ans)
  /\ UNCHANGED <<registered, password, sessions, live, profiles, now, verified>>
  /\ UNCHANGED <<parked, ui>>

\* from('profiles').update(...).eq('id', ...).select().single() answers.
UpdateReturn(fail) ==
  /\ Pending("update")
  /\ LET c == Last(req.calls)
         rows == IF fail THEN {} ELSE UpdateRows(c.token, c.filter)
         table == [u \in DOMAIN profiles |->
                     IF u \in rows THEN UpdatedRow(profiles[u], c.payload, now + 1)
                     ELSE profiles[u]]
         ans == StoreAnswer(rows, table, fail)
     IN  /\ profiles' = table
         /\ now' = IF rows = {} THEN now ELSE now + 1
         /\ req' = OpenApiStored(Answered(req, ans.error), ans)
  /\ UNCHANGED <<registered, password, sessions, live, verified>>
  /\ UNCHANGED <<parked, ui>>

\* An identity sends DELETE FROM profiles WHERE id = <its id> with its own
\* access token, straight to the store: the DELETE policy lets it through.
DeleteOwnProfile(u) ==
  /\ DeleteRows(AccessToken(u), u) # {}
  /\ profiles' = [w \in DOMAIN profiles \ DeleteRows(AccessToken(u), u) |->
                    profiles[w]]
  /\ UNCHANGED <<registered, password, sessions, live, now, req, verified>>
  /\ UNCHANGED <<parked, ui>>

\* An identity sends INSERT INTO profiles (id) VALUES (<its id>) with its own
\* access token: the INSERT policy and the primary key let it through when
\* it has no row.
InsertOwnProfile(u) ==
  /\ now < MaxTime
  /\ InsertAllowed(AccessToken(u), u)
  /\ profiles' = [w \in DOMAIN profiles \cup {u} |->
                    IF w = u THEN NewProfile(u, now + 1) ELSE profiles[w]]
  /\ now' = now + 1
  /\ UNCHANGED <<registered, password, sessions, live, req, verified>>
  /\ UNCHANGED <<parked, ui>>

\* The response has been sent; the next request may arrive.
Finish ==
  /\ req.pc = "done"
  /\ req' = Idle
  /\ UNCHANGED <<registered, password, sessions, live, profiles, now, verified>>
  /\ UNCHANGED <<parked, ui>>

\* The provider stops accepting an identity's access token: it expired.
Expire(u) ==
  /\ u \in live
  /\ live' = live \ {u}
  /\ UNCHANGED <<registered, password, sessions, profiles, now, req, verified>>
  /\ UNCHANGED <<parked, ui>>

Next ==
  \/ \E server \in Servers : \E route \in RoutesOf(server) :
       \E header \in HeadersOf(route) : \E body \in BodiesOf(route) :
         Receive(server, route, header, body)
  \/ \E fail \in Fails : GetUserReturn(fail)
  \/ \E fail \in WriteFails : SignUpReturn(fail)
  \/ \E fail \in Fails : SignInReturn(fail)
  \/ \E fail \in Fails : RefreshReturn(fail)
  \/ \E fail \in Fails : SignOutReturn(fail)
  \/ \E fail \in Fails : SelectReturn(fail)
  \/ \E fail \in WriteFails : UpdateReturn(fail)
  \/ Finish
  \/ \E u \in Users : Expire(u)

Spec == Init /\ [][Next]_vars

\* Two requests in flight. The runtime runs one handler at a time and changes
\* to another only where a handler awaits or has returned: the request in req
\* is set aside and the other one taken up.
Swap ==
  /\ req.pc # "run"
  /\ req # parked
  /\ req' = parked
  /\ parked' = req
  /\ UNCHANGED <<registered, password, sessions, live, profiles, now, verified, ui>>

InitConc ==
  /\ registered = Users
  /\ password = [u \in Users |-> "abcdef"]
  /\ sessions = Users
  /\ live = Users
  /\ profiles = [u \in Users |-> NewProfile(u, 0)]
  /\ now = 0
  /\ req = Idle
  /\ verified = {}
  /\ parked = Idle
  /\ ui = UiInit

\* The requests of the two identities that run concurrently.
ConcRoutes(server) ==
  IF server = "openapi" THEN {"me", "getProfile", "putProfile"}
  ELSE {"me", "logout"}

ConcHeaders == {Hdr("Bearer t1"), Hdr("Bearer t2")}

ConcBodies(route) ==
  IF route = "putProfile"
  THEN {Json([name |-> Str("Alice")])}
  ELSE {NoBody}

NextConc ==
  \/ \E server \in Servers : \E route \in ConcRoutes(server) :
       \E header \in ConcHeaders : \E body \in ConcBodies(route) :
         Receive(server, route, header, body)
  \/ \E fail \in Fails : GetUserReturn(fail)
  \/ \E fail \in Fails : SignOutReturn(fail)
  \/ \E fail \in Fails : SelectReturn(fail)
  \/ \E fail \in WriteFails : UpdateReturn(fail)
  \/ Finish
  \/ \E u \in Users : Expire(u)
  \/ Swap

SpecConc == InitConc /\ [][NextConc]_vars

\* The profile page's fetchProfile, up to its request: without a session it
\* returns at once; a fetch that throws is caught and logged.
FetchProfile(throws) ==
  /\ ui.handler = "none"
  /\ req.pc = "idle"
  /\ ui.session # <<>>
  /\ IF throws THEN UNCHANGED <<req, ui>>
     ELSE /\ req' = OpenApiDispatch("getProfile", createAuthHeaders(ui.session[1]),
                                    NoBody)
          /\ ui' = [ui EXCEPT !.handler = "fetchProfile"]
  /\ UNCHANGED <<registered, password, sessions, live, profiles, now, verified, parked>>

\* fetchProfile after the response: the form takes the profile's name and bio,
\* a null as the empty string.
FetchProfileReturn ==
  /\ ui.handler = "fetchProfile"
  /\ req.pc = "done"
  /\ req' = Idle
  /\ ui' = IF req.resp.status = 200
           THEN [ui EXCEPT !.handler = "none",
                           !.name = OrEmpty(req.resp.body.profile.name),
                           !.bio = OrEmpty(req.resp.body.profile.bio),
                           !.loaded = <<Shown(req.resp.body.profile)>>,
                           !.edited = FALSE]
           ELSE [ui EXCEPT !.handler = "none"]
  /\ UNCHANGED <<registered, password, sessions, live, profiles, now, verified, parked>>

\* The user types into the profile form.
Edit(name, bio) ==
  /\ ui.handler = "none"
  /\ <<name, bio>> # <<ui.name, ui.bio>>
  /\ ui' = [ui EXCEPT !.name = name, !.bio = bio, !.edited = TRUE]
  /\ UNCHANGED <<registered, password, sessions, live, profiles, now, req,
                 verified, parked>>

\* handleSave, up to its request. setSaving(true); inside the try, without a
\* session the handler returns, past the setSaving(false) that follows the
\* try; a fetch that throws is caught and setSaving(false) reached.
HandleSave(throws) ==
  /\ ui.handler = "none"
  /\ req.pc = "idle"
  /\ ~ui.saving
  /\ IF ui.session = <<>>
     THEN /\ ui' = [ui EXCEPT !.saving = TRUE, !.message = NULL]
          /\ UNCHANGED req
     ELSE IF throws
     THEN /\ ui' = [ui EXCEPT !.saving = FALSE, !.message = "error"]
          /\ UNCHANGED req
     ELSE /\ req' = OpenApiDispatch("putProfile", createAuthHeaders(ui.session[1]),
                                    Json([name |-> Str(ui.name), bio |-> Str(ui.bio)]))
          /\ ui' = [ui EXCEPT !.handler = "handleSave", !.saving = TRUE,
                              !.message = NULL]
  /\ UNCHANGED <<registered, password, sessions, live, profiles, now, verified, parked>>

\* handleSave after the response: a message, then setSaving(false).
HandleSaveReturn ==
  /\ ui.handler = "handleSave"
  /\ req.pc = "done"
  /\ req' = Idle
  /\ ui' = [ui EXCEPT !.handler = "none", !.saving = FALSE,
                      !.message = IF req.resp.status = 200 THEN "success"
                                  ELSE "error",
                      !.loaded = IF req.resp.status = 200
                                 THEN <<Shown(req.resp.body.profile)>> ELSE @]
  /\ UNCHANGED <<registered, password, sessions, live, profiles, now, verified, parked>>

\* The auth page's handleSubmit, up to its request: setLoading(true), then
\* login or signup; whatever is thrown is caught, and finally setLoading(false).
HandleSubmit(isLogin, credentials, throws) ==
  /\ ui.handler = "none"
  /\ req.pc = "idle"
  /\ ~ui.loading
  /\ IF throws
     THEN /\ ui' = [ui EXCEPT !.loading = FALSE, !.message = "error"]
          /\ UNCHANGED req
     ELSE /\ req' = OpenApiDispatch(IF isLogin THEN "login" ELSE "signup",
                                    NoHeader, Json(credentials))
          /\ ui' = [ui EXCEPT !.handler = "handleSubmit", !.loading = TRUE,
                              !.message = NULL]
  /\ UNCHANGED <<registered, password, sessions, live, profiles, now, verified, parked>>

\* handleSubmit after the response: a login that succeeded sets the session;
\* finally setLoading(false).
HandleSubmitReturn ==
  /\ ui.handler = "handleSubmit"
  /\ req.pc = "done"
  /\ req' = Idle
  /\ ui' = [ui EXCEPT !.handler = "none", !.loading = FALSE,
                      !.message = IF req.resp.status = 200 THEN "success"
                                  ELSE "error",
                      !.session = IF /\ req.route = "login"
                                     /\ req.resp.status = 200
                                     /\ req.resp.body.session # <<>>
                                  THEN <<req.resp.body.session[1].access_token>>
                                  ELSE @]
  /\ UNCHANGED <<registered, password, sessions, live, profiles, now, verified, parked>>

\* A fetch of the home page, up to its request: setApiLoading(true), the
\* request with the session's token when there is one; what is thrown is
\* caught and setApiLoading(false) reached.
HomeFetch(route, throws) ==
  /\ ui.handler = "none"
  /\ req.pc = "idle"
  /\ ~ui.apiLoading
  /\ IF throws
     THEN UNCHANGED <<req, ui>>
     ELSE /\ req' = OpenApiDispatch(route,
                                    IF route = "hello" THEN NoHeader
                                    ELSE HomeHeaders(ui.session),
                                    NoBody)
          /\ ui' = [ui EXCEPT !.handler = "homeFetch", !.apiLoading = TRUE]
  /\ UNCHANGED <<registered, password, sessions, live, profiles, now, verified, parked>>

\* The home page's fetch after the response: the response is shown, then
\* setApiLoading(false).
HomeFetchReturn ==
  /\ ui.handler = "homeFetch"
  /\ req.pc = "done"
  /\ req' = Idle
  /\ ui' = [ui EXCEPT !.handler = "none", !.apiLoading = FALSE]
  /\ UNCHANGED <<registered, password, sessions, live, profiles, now, verified, parked>>

\* handleLogout: supabase.auth.signOut() ends the session at the provider and
\* drops it in the browser.
HandleLogout ==
  /\ ui.session # <<>>
  /\ sessions' = sessions \ SignOutEnds(ui.session[1], FALSE)
  /\ live' = live \ SignOutEnds(ui.session[1], FALSE)
  /\ ui' = [ui EXCEPT !.session = <<>>]
  /\ UNCHANGED <<registered, password, profiles, now, req, verified, parked>>

\* u2 is signed up and logged in in the browser; its profile row holds any of
\* the values a row may.
InitUi ==
  /\ registered = {"u2"}
  /\ password = [u \in Users |-> ""]
  /\ sessions = {"u2"}
  /\ live = {"u2"}
  /\ profiles \in {[u \in {"u2"} |-> [NewProfile(u, 0) EXCEPT !.name = n, !.bio = b]] :
                     n \in {NULL, "Alice"}, b \in {NULL, "hi"}}
  /\ now = 0
  /\ req = Idle
  /\ verified = {}
  /\ parked = Idle
  /\ ui = [UiInit EXCEPT !.session = <<AccessToken("u2")>>]

NextUi ==
  \/ \E throws \in BOOLEAN : FetchProfile(throws)
  \/ FetchProfileReturn
  \/ \E name \in FormNames : \E bio \in FormBios : Edit(name, bio)
  \/ \E throws \in BOOLEAN : HandleSave(throws)
  \/ HandleSaveReturn
  \/ \E isLogin \in BOOLEAN : \E credentials \in FormCredentials :
       \E throws \in BOOLEAN : HandleSubmit(isLogin, credentials, throws)
  \/ HandleSubmitReturn
  \/ \E route \in HomeRoutes : \E throws \in BOOLEAN : HomeFetch(route, throws)
  \/ HomeFetchReturn
  \/ HandleLogout
  \/ \E fail \in Fails : GetUserReturn(fail)
  \/ \E fail \in WriteFails : SignUpReturn(fail)
  \/ \E fail \in Fails : SignInReturn(fail)
  \/ \E fail \in Fails : SelectReturn(fail)
  \/ \E fail \in WriteFails : UpdateReturn(fail)
  \/ \E u \in Users : Expire(u)

SpecUi == InitUi /\ [][NextUi]_vars

\* The two servers side by side: one request is given to both, the OpenAPI
\* server's copy in req and the plain server's in parked, and the provider
\* answers the getUser of each from the same state.
PairRoutes == {"me", "data"}

PairReceive(route, header, body) ==
  /\ req.pc = "idle"
  /\ parked.pc = "idle"
  /\ req' = OpenApiDispatch(route, header, body)
  /\ parked' = PlainDispatch(route, header, body)
  /\ UNCHANGED <<registered, password, sessions, live, profiles, now, verified, ui>>

\* auth.getUser() answers whichever of the two handlers await it, each for
\* the token its own client carries.
PairGetUserReturn(fail) ==
  LET waits(r) == r.pc = "await" /\ Last(r.calls).op = "getUser"
      answer(r) == GetUserAnswer(Last(r.calls).token, fail)
  IN  /\ waits(req) \/ waits(parked)
      /\ req' = IF waits(req)
                THEN OpenApiVerified(Answered(req, answer(req).error), answer(req), now)
                ELSE req
      /\ parked' = IF waits(parked)
                   THEN PlainVerified(Answered(parked, answer(parked).error),
                                      answer(parked), now)
                   ELSE parked
      /\ verified' = verified \cup
           {Last(r.calls).token : r \in {r \in {req, parked} :
              waits(r) /\ answer(r).error = NULL /\ answer(r).user # <<>>}}
      /\ UNCHANGED <<registered, password, sessions, live, profiles, now, ui>>

\* Both responses have been sent.
PairFinish ==
  /\ req.pc = "done"
  /\ parked.pc = "done"
  /\ req' = Idle
  /\ parked' = Idle
  /\ UNCHANGED <<registered, password, sessions, live, profiles, now, verified, ui>>

NextPair ==
  \/ \E route \in PairRoutes : \E header \in Headers : \E body \in StrayBodies :
       PairReceive(route, header, body)
  \/ \E fail \in Fails : PairGetUserReturn(fail)
  \/ PairFinish
  \/ \E u \in Users : Expire(u)

SpecPair == InitConc /\ [][NextPair]_vars

\* The store as its users reach it: the OpenAPI server's signup and profile
\* routes, and the statements the row-level policies of profiles let a client
\* holding an access token send to the store itself.
PolicyRoutes == {"signup", "getProfile", "putProfile"}

NextPolicies ==
  \/ \E route \in PolicyRoutes :
       \E header \in HeadersOf(route) : \E body \in BodiesOf(route) :
         Receive("openapi", route, header, body)
  \/ \E fail \in Fails : GetUserReturn(fail)
  \/ \E fail \in WriteFails : SignUpReturn(fail)
  \/ \E fail \in Fails : SelectReturn(fail)
  \/ \E fail \in WriteFails : UpdateReturn(fail)
  \/ Finish
  \/ \E u \in Users : Expire(u)
  \/ \E u \in Users : DeleteOwnProfile(u)
  \/ \E u \in Users : InsertOwnProfile(u)

SpecPolicies == Init /\ [][NextPolicies]_vars

----------------------------------------------------------------------------
(* Properties *)

\* The routes that need a bearer token.
ProtectedRoutes == {"logout", "me", "data", "getProfile", "putProfile"}

\* The Authorization header is absent or does not start with "Bearer ".
HeaderLacksBearer(h) ==
  ~h.present \/ Len(h.val) < 7 \/ SubSeq(h.val, 1, 7) # "Bearer "

\* The response carries an {error} body.
ErrorBody(r) == "error" \in DOMAIN r.resp.body

\* The body of a PUT /api/profile is not JSON, or not a {name?, bio?} of
\* strings.
PutBodyInvalid(r) ==
  /\ r.server = "openapi"
  /\ r.route = "putProfile"
  /\ \/ r.body.kind # "json"
     \/ \E f \in {"name", "bio"} \cap DOMAIN r.body.obj : r.body.obj[f].t # "string"

\* C1, as stated: on every protected route a request whose Authorization
\* header is absent or does not start with "Bearer " is answered 401 with an
\* {error} body, whatever its path and its body.
C1_AsStated ==
  (req.pc # "idle" /\ req.route \in ProtectedRoutes /\ HeaderLacksBearer(req.header))
    => (req.pc = "done" /\ req.resp.status = 401 /\ ErrorBody(req))

\* C1, amended: such a request is answered 401 with an {error} body, whatever
\* its path and body, except on PUT /api/profile when the JSON body fails
\* validation: the validator answers 400 before the header is looked at.
C1_MissingBearerIs401 ==
  (req.pc # "idle" /\ req.route \in ProtectedRoutes /\ HeaderLacksBearer(req.header))
    => /\ req.pc = "done"
       /\ req.calls = <<>>
       /\ IF PutBodyInvalid(req) THEN req.resp.status = 400
          ELSE req.resp.status = 401 /\ ErrorBody(req)

\* C1's case: a PUT /api/profile with a valid body and a header that is not a
\* bearer one has been answered 401.
C1_Witness ==
  /\ req.pc = "done"
  /\ req.route = "putProfile"
  /\ req.body = Json([name |-> Str("Alice")])
  /\ req.header = Hdr("Basic t2")
  /\ req.resp.status = 401

\* The positions of the calls of an operation in the request's calls.
CallsOf(r, ops) == {i \in 1..Len(r.calls) : r.calls[i].op \in ops}

\* C2: a protected route answers 200 only if auth.getUser, called in that
\* request with the forwarded token, returned a user and no error; when it
\* returns an error or no user the response is 401 with the error
\* 'Invalid or expired token', no identity is set and nothing else is called.
C2_OkOnlyAfterGetUser ==
  req.route \in ProtectedRoutes =>
    /\ (req.pc = "done" /\ req.resp.status = 200) =>
         /\ req.calls # <<>>
         /\ req.calls[1].op = "getUser"
         /\ req.calls[1].ok = "ok"
         /\ req.header.val = "Bearer " \o req.calls[1].token
    /\ req.user # <<>> => (req.calls # <<>> /\ req.calls[1].ok = "ok")
    /\ \A i \in CallsOf(req, {"getUser"}) :
         req.calls[i].ok = "error" =>
           /\ req.pc = "done"
           /\ req.resp.status = 401
           /\ DOMAIN req.resp.body = {"error"}
           /\ req.resp.body.error = "Invalid or expired token"
           /\ req.user = <<>>
           /\ Len(req.calls) = 1

\* C2's case: a token that verified before is refused by the provider and the
\* profile route answers 401.
C2_Witness ==
  /\ req.pc = "done"
  /\ req.route = "getProfile"
  /\ req.header = Hdr("Bearer t2")
  /\ "t2" \in verified
  /\ req.calls[1].ok = "error"
  /\ req.resp.status = 401

\* C3, in a state: a profiles query is made after a successful getUser, is
\* filtered by the id of the identity that call resolved from the bearer
\* token, and carries no column but name and bio.
C3_FilterInv ==
  \A i \in CallsOf(req, {"select", "update"}) :
    /\ i = 2
    /\ req.calls[1].op = "getUser"
    /\ req.calls[1].ok = "ok"
    /\ req.user # <<>>
    /\ req.calls[i].filter = req.user[1].id
    /\ AccessToken(req.calls[i].filter) = req.calls[1].token
    /\ DOMAIN req.calls[i].payload \subseteq {"name", "bio"}

\* C3, in a step: the only row a request changes is the caller's.
C3_FilterStep ==
  \A u \in DOMAIN profiles \cap DOMAIN profiles' :
    profiles'[u] # profiles[u] =>
      /\ Pending("update")
      /\ u = req.user[1].id
      /\ AccessToken(u) = req.calls[1].token

\* C3: on the profile routes the store query is filtered by the id of the
\* identity resolved from the bearer token in that request, and no value of
\* the request body changes which row is read or written.
C3_FilterIsCallerId == []C3_FilterInv /\ [][C3_FilterStep]_vars

\* C3's case: u2 has updated its profile with a body that names u1's id.
C3_Witness ==
  /\ req.pc = "done"
  /\ req.route = "putProfile"
  /\ req.body = Json([name |-> Str("Bob"), id |-> Str("u1")])
  /\ req.user # <<>>
  /\ req.user[1].id = "u2"
  /\ req.resp.status = 200
  /\ "u2" \in DOMAIN profiles
  /\ profiles["u2"].name = "Bob"

\* C4: auth.signOut is called only after auth.getUser succeeded for the same
\* bearer token in the same request; when verification fails it is not
\* called.
C4_SignOutAfterVerify ==
  /\ \A i \in CallsOf(req, {"signOut"}) :
       /\ req.route = "logout"
       /\ i = 2
       /\ req.calls[1].op = "getUser"
       /\ req.calls[1].ok = "ok"
       /\ req.calls[i].token = req.calls[1].token
  /\ (req.route = "logout" /\ req.pc = "done" /\ req.resp.status = 401) =>
       CallsOf(req, {"signOut"}) = {}

\* C4's case: a logout was verified and signed out.
C4_Witness ==
  /\ req.pc = "done"
  /\ req.route = "logout"
  /\ Len(req.calls) = 2
  /\ req.calls[2].op = "signOut"
  /\ req.calls[2].ok = "ok"
  /\ req.resp.status = 200
  /\ "u2" \notin sessions

\* A protected request with a well-formed bearer header has called
\* auth.getUser with the header's token.
C5_RoundTrip(r) ==
  /\ r.calls # <<>>
  /\ r.calls[1].op = "getUser"
  /\ r.header.val = "Bearer " \o r.calls[1].token

\* When auth.getUser answers for a token the provider does not accept at that
\* moment, the request is answered 401, whatever was verified before.
C5_NoCacheStep ==
  (/\ Pending("getUser")
   /\ req'.calls[Len(req.calls)].ok # "pending"
   /\ Uid(Last(req.calls).token) = {})
    => (req'.pc = "done" /\ req'.resp.status = 401)

\* C5, as stated: every protected request with a well-formed Bearer header
\* performs its own getUser round trip, and a request carrying a token the
\* provider has stopped accepting is answered 401 although an earlier one
\* with the same token succeeded.
C5_AsStated ==
  /\ [](/\ req.pc # "idle"
        /\ req.route \in ProtectedRoutes
        /\ ~HeaderLacksBearer(req.header)
        => C5_RoundTrip(req))
  /\ [][C5_NoCacheStep]_vars

\* C5, amended: the same of every protected request whose body the route's
\* validator accepts; a PUT /api/profile whose JSON body fails validation is
\* answered 400 before any verification.
C5_NeverCached ==
  /\ [](/\ req.pc # "idle"
        /\ req.route \in ProtectedRoutes
        /\ ~HeaderLacksBearer(req.header)
        => IF PutBodyInvalid(req)
           THEN req.pc = "done" /\ req.resp.status = 400 /\ req.calls = <<>>
           ELSE C5_RoundTrip(req))
  /\ [][C5_NoCacheStep]_vars

\* C5's case: t2 verified in an earlier request, then expired while its
\* session lasts, and a later request with it is answered 401.
C5_Witness ==
  /\ req.pc = "done"
  /\ req.server = "plain"
  /\ req.route = "me"
  /\ req.header = Hdr("Bearer t2")
  /\ "t2" \in verified
  /\ "u2" \in sessions \ live
  /\ req.calls[1].error = "invalid JWT"
  /\ req.resp.status = 401

\* The identity verify returns for a provider user.
IdentityOf(u) == [id |-> u, email |-> IF EmailOf(u) = NULL THEN "" ELSE EmailOf(u)]

\* C6: the token forwarded to auth.getUser is the header with its "Bearer "
\* prefix stripped (header = "Bearer " + token), and the identity of a
\* verified request has the provider user's id and its email, or the empty
\* string when the provider gives no email.
C6_ForwardsStrippedToken ==
  /\ \A i \in CallsOf(req, {"getUser"}) :
       /\ i = 1
       /\ req.header.present
       /\ req.header.val = "Bearer " \o req.calls[i].token
  /\ req.user # <<>> =>
       \E u \in Users : /\ AccessToken(u) = req.calls[1].token
                        /\ req.user[1] = IdentityOf(u)
  /\ (req.pc = "done" /\ req.route = "me" /\ req.resp.status = 200) =>
       req.resp.body.user = req.user[1]

\* C6's case: u2, who has no email, is verified and returned with email "".
C6_Witness ==
  /\ req.pc = "done"
  /\ req.route = "me"
  /\ req.server = "openapi"
  /\ req.resp.status = 200
  /\ req.calls[1].token = "t2"
  /\ req.resp.body.user = [id |-> "u2", email |-> ""]

\* The status a route answers a provider failure with.
FailureStatus(route) == IF route = "signup" THEN 400 ELSE 401

\* The provider operation of an auth route.
ProviderOp(route) ==
  CASE route = "signup" -> "signUp"
    [] route = "login" -> "signIn"
    [] OTHER -> "refreshSession"

\* C7: a failure of signUp, signInWithPassword or refreshSession is answered
\* with the provider's message as {error} and the status of the route (400,
\* 401, 401); these routes answer 200 only when the provider reported no
\* error.
C7_ProviderFailurePassedThrough ==
  (req.pc = "done" /\ req.route \in {"signup", "login", "refresh"}) =>
    /\ (req.calls # <<>> /\ Last(req.calls).ok = "error") =>
         /\ req.resp.status = FailureStatus(req.route)
         /\ DOMAIN req.resp.body = {"error"}
         /\ req.resp.body.error = Last(req.calls).error
    /\ req.resp.status = 200 =>
         /\ Len(req.calls) = 1
         /\ req.calls[1].op = ProviderOp(req.route)
         /\ req.calls[1].ok = "ok"

\* C7's case: a login with a wrong password on the OpenAPI server.
C7_Witness ==
  /\ req.pc = "done"
  /\ req.server = "openapi"
  /\ req.route = "login"
  /\ "u1" \in registered
  /\ req.resp = [status |-> 401, body |-> [error |-> "Invalid login credentials"]]

\* The credentials lack the email or the password, or the password is
\* shorter than 6 characters.
WeakCredentials(obj) ==
  \/ "email" \notin DOMAIN obj
  \/ "password" \notin DOMAIN obj
  \/ (obj["password"].t = "string" /\ Len(obj["password"].v) < 6)

\* C8: on signup and login a request whose password is shorter than 6
\* characters, or whose email or password is missing, is answered 400 with an
\* {error} body and is never forwarded to the auth provider.
C8_AsStated ==
  (/\ req.pc # "idle"
   /\ req.route \in {"signup", "login"}
   /\ req.body.kind = "json"
   /\ WeakCredentials(req.body.obj))
    => (/\ req.pc = "done"
        /\ req.resp.status = 400
        /\ ErrorBody(req)
        /\ req.calls = <<>>)

\* The value a column has after a partial merge of the request body.
Merged(obj, f, old) == IF f \in DOMAIN obj THEN obj[f].v ELSE old

\* C9, in a step: a PUT answered 200 has set the caller's name and bio to the
\* body's where the body has the field and left them where it has not, and
\* answers with that row; a GET answered 200 returns the caller's stored row;
\* nothing else changes the name or bio of a row.
C9_MergeStep ==
  /\ (Pending("update") /\ req'.pc = "done" /\ req'.resp.status = 200) =>
       LET u == req.user[1].id
       IN  /\ profiles'[u].name = Merged(req.body.obj, "name", profiles[u].name)
           /\ profiles'[u].bio = Merged(req.body.obj, "bio", profiles[u].bio)
           /\ profiles'[u].id = u
           /\ req'.resp.body.profile = profiles'[u]
           /\ \A w \in DOMAIN profiles \ {u} : profiles'[w] = profiles[w]
  /\ (Pending("select") /\ req'.pc = "done" /\ req'.resp.status = 200) =>
       req'.resp.body.profile = profiles[req.user[1].id]
  /\ \A u \in DOMAIN profiles \cap DOMAIN profiles' :
       (profiles'[u].name # profiles[u].name \/ profiles'[u].bio # profiles[u].bio) =>
         /\ Pending("update")
         /\ req'.resp.status = 200
         /\ u = req.user[1].id

\* C9: PUT /api/profile is a partial merge: a field absent from the body
\* keeps its stored value, a field present takes the requested value, and a
\* following GET /api/profile by the same identity returns that merged row.
C9_PartialMerge == [][C9_MergeStep]_vars

\* C9's case: after {name: "Alice"} and {bio: "hi"} in two requests, u2's GET
\* returns both.
C9_Witness ==
  /\ req.pc = "done"
  /\ req.route = "getProfile"
  /\ req.resp.status = 200
  /\ req.user[1].id = "u2"
  /\ req.resp.body.profile.name = "Alice"
  /\ req.resp.body.profile.bio = "hi"
  /\ "u2" \in DOMAIN profiles
  /\ req.resp.body.profile = profiles["u2"]

ProfileRoutes == {"getProfile", "putProfile"}

\* Verification failed: the header is no bearer header, or getUser answered
\* with an error.
VerificationFailed(r) ==
  \/ HeaderLacksBearer(r.header)
  \/ (r.calls # <<>> /\ r.calls[1].op = "getUser" /\ r.calls[1].ok = "error")

\* The three outcomes of a profile request.
C10_Outcome(r) ==
  IF VerificationFailed(r)
  THEN /\ r.resp.status = 401
       /\ ErrorBody(r)
       /\ CallsOf(r, {"select", "update"}) = {}
  ELSE IF Len(r.calls) = 2 /\ r.calls[2].ok = "error"
  THEN /\ r.resp.status = 400
       /\ DOMAIN r.resp.body = {"error"}
       /\ r.resp.body.error = r.calls[2].error
  ELSE /\ r.resp.status = 200
       /\ "profile" \in DOMAIN r.resp.body
       /\ r.resp.body.profile.id = r.user[1].id

\* A profile request that is not answered 200 leaves the table as it was.
C10_FailedStep ==
  (/\ req' # req
   /\ req'.route \in ProfileRoutes
   /\ req'.pc = "done"
   /\ req'.resp.status # 200)
    => profiles' = profiles

\* C10, as stated: GET and PUT /api/profile answer 401 {error} when
\* verification fails, without a query of profiles; 400 with the store's
\* message when the store reports an error after verification; 200 with the
\* profile row otherwise; a failed request leaves the stored profile
\* unchanged.
C10_AsStated ==
  /\ []((req.pc = "done" /\ req.route \in ProfileRoutes) => C10_Outcome(req))
  /\ [][C10_FailedStep]_vars

\* C10, amended: the same, after the body validator of PUT /api/profile: a
\* JSON body that is malformed or fails the schema is answered 400 before
\* verification, without any call.
C10_ProfileOutcomes ==
  /\ []((req.pc = "done" /\ req.route \in ProfileRoutes) =>
          IF PutBodyInvalid(req)
          THEN req.resp.status = 400 /\ req.calls = <<>>
          ELSE C10_Outcome(req))
  /\ [][C10_FailedStep]_vars

\* C10's case: the token expired between verification and the update; the
\* store refuses, the answer is 400 with its message and the row is as it was.
C10_Witness ==
  /\ req.pc = "done"
  /\ req.route = "putProfile"
  /\ req.body = Json([name |-> Str("Alice")])
  /\ Len(req.calls) = 2
  /\ req.calls[1].ok = "ok"
  /\ req.calls[2].error = "JSON object requested, multiple (or no) rows returned"
  /\ req.resp = [status |-> 400, body |-> [error |-> req.calls[2].error]]
  /\ "u2" \in DOMAIN profiles
  /\ profiles["u2"].name = NULL


\* C11, in a step: an identity the provider creates gets a row with name and
\* bio null in the same step, and a row disappears only together with its
\* identity.
C11_RowStep ==
  /\ \A u \in registered' \ registered :
       /\ u \in DOMAIN profiles'
       /\ profiles'[u].name = NULL
       /\ profiles'[u].bio = NULL
  /\ \A u \in DOMAIN profiles \ DOMAIN profiles' : u \notin registered'

\* C11, as stated: profiles holds exactly one row per identity, created with
\* name and bio null when the identity is created; no sequence of signups,
\* profile reads, updates and statements the row-level policies allow leaves
\* an identity without its row or with two, and a row disappears only with
\* its identity. The table is keyed by id (PRIMARY KEY), so "exactly one row"
\* is: the ids of the rows are the identities.
C11_AsStated ==
  /\ [](DOMAIN profiles = registered)
  /\ [][C11_RowStep]_vars

\* C12, in a step: an update answered 200 happens at a time of its own, later
\* than the clock before it, and leaves the caller's row with updated_at at
\* that time, later than created_at and not earlier than the updated_at it
\* had; no step changes the created_at of a row.
C12_UpdateStep ==
  /\ (Pending("update") /\ req'.pc = "done" /\ req'.resp.status = 200) =>
       LET u == req.user[1].id
       IN  /\ now' > now
           /\ profiles'[u].updated_at = now'
           /\ profiles'[u].updated_at > profiles'[u].created_at
           /\ profiles'[u].updated_at >= profiles[u].updated_at
           /\ req'.resp.body.profile.updated_at = now'
  /\ \A u \in DOMAIN profiles \cap DOMAIN profiles' :
       /\ profiles'[u].created_at = profiles[u].created_at
       /\ profiles'[u].updated_at # profiles[u].updated_at =>
            (Pending("update") /\ req'.resp.status = 200)

\* C12: every successful update of a profile sets updated_at to the time of
\* that update: after a successful PUT /api/profile, updated_at is strictly
\* later than created_at and never earlier than the previous updated_at;
\* created_at is never changed.
C12_UpdatedAt ==
  /\ [](\A u \in DOMAIN profiles : profiles[u].updated_at >= profiles[u].created_at)
  /\ [][C12_UpdateStep]_vars

\* C12's case: u2's second successful PUT: the row was created at 0, updated
\* at 1 and now at 2.
C12_Witness ==
  /\ req.pc = "done"
  /\ req.route = "putProfile"
  /\ req.resp.status = 200
  /\ req.resp.body.profile.id = "u2"
  /\ req.resp.body.profile.created_at = 0
  /\ req.resp.body.profile.updated_at = 2
  /\ "u2" \in DOMAIN profiles
  /\ profiles["u2"].updated_at = 2

\* C13, as stated, for the bodies that parse: POST /api/greet answers a body
\* {name: s} with s a string by 200, the message "Hello, s!" and a timestamp
\* string; a body without a string name is rejected with 400 and produces no
\* greeting; no authentication is done, so the header has no part in the
\* answer.
C13_AsStated ==
  (req.pc = "done" /\ req.route = "greet" /\ req.body.kind = "json") =>
    /\ req.calls = <<>>
    /\ req.user = <<>>
    /\ IF /\ "name" \in DOMAIN req.body.obj
          /\ req.body.obj["name"].t = "string"
       THEN /\ req.resp.status = 200
            /\ req.resp.body.message = "Hello, " \o req.body.obj["name"].v \o "!"
            /\ req.resp.body.timestamp.t = "string"
       ELSE /\ req.resp.status = 400
            /\ "message" \notin DOMAIN req.resp.body

\* The routes whose handler reads a JSON body.
JsonBodyRoutes == {"greet", "signup", "login", "refresh", "putProfile"}

\* C14, as stated: on every route that reads a JSON body, a body that does
\* not parse as JSON is answered 400 with an error body (the {error} object,
\* or the validator's text); no request ends in an exception that nothing
\* caught, which the framework answers with 500.
C14_AsStated ==
  req.pc = "done" =>
    /\ req.resp.status # 500
    /\ (req.route \in JsonBodyRoutes /\ req.body.kind = "malformed") =>
         /\ req.resp.status = 400
         /\ ErrorBody(req) \/ "text" \in DOMAIN req.resp.body

\* C15: no handler retries: within one request each external operation is
\* invoked at most once, and after a call has failed (an error from the
\* collaborator, or a verification that resolved no identity) the handler
\* has answered with an error status and made no further call.
C15_NoRetry ==
  /\ \A i, j \in DOMAIN req.calls :
       i # j => req.calls[i].op # req.calls[j].op
  /\ \A i \in DOMAIN req.calls :
       req.calls[i].ok = "error" =>
         /\ i = Len(req.calls)
         /\ req.pc = "done"
         /\ req.resp.status \in {400, 401}
         /\ ErrorBody(req)
  /\ \A i \in DOMAIN req.calls :
       (req.calls[i].op = "getUser" /\ req.calls[i].ok = "ok" /\ req.user = <<>>) =>
         /\ i = Len(req.calls)
         /\ req.pc = "done"
         /\ req.resp.status = 401

\* C15's case: the update of a verified PUT /api/profile failed; the request
\* is answered 400 after exactly the two calls.
C15_Witness ==
  /\ req.pc = "done"
  /\ req.route = "putProfile"
  /\ Len(req.calls) = 2
  /\ req.calls[1].ok = "ok"
  /\ req.calls[2].op = "update"
  /\ req.calls[2].ok = "error"
  /\ req.calls[2].error = "fetch failed"
  /\ req.resp.status = 400

\* The validation stage of a request failed: the declared schema of an
\* OpenAPI route refused the body, or a plain handler could not parse the
\* body or found a required field missing.
ValidationFailed(r) ==
  CASE r.server = "openapi" /\ r.route \in {"greet", "signup", "login", "putProfile"} ->
         \/ r.body.kind # "json"
         \/ ~RouteSchema(r.route, r.body.obj)
    [] r.server = "plain" /\ r.route \in {"signup", "login"} ->
         \/ r.body.kind # "json"
         \/ ~Truthy(Field(r.body.obj, "email"))
         \/ ~Truthy(Field(r.body.obj, "password"))
    [] r.server = "plain" /\ r.route = "refresh" ->
         \/ r.body.kind # "json"
         \/ ~Truthy(Field(r.body.obj, "refresh_token"))
    [] r.server = "plain" /\ r.route = "greet" -> r.body.kind # "json"
    [] OTHER -> FALSE

\* The routes that verify the bearer token: the protected routes and logout.
VerifyingRoutes == ProtectedRoutes

\* C17, in a state: a request whose validation failed has made no call and is
\* answered with an error; verification is the first call of a request and a
\* business call comes first on a route without verification, second and
\* after a verification that resolved the identity on a route with it; a
\* request is answered 200 only after every stage it has succeeded.
C17_OrderInv ==
  /\ (req.pc # "idle" /\ ValidationFailed(req)) =>
       /\ req.calls = <<>>
       /\ req.pc = "done"
       /\ req.resp.status >= 400
  /\ \A i \in DOMAIN req.calls :
       IF req.calls[i].op = "getUser"
       THEN i = 1 /\ req.route \in VerifyingRoutes
       ELSE IF req.route \in VerifyingRoutes
       THEN /\ i = 2
            /\ req.calls[1].op = "getUser"
            /\ req.calls[1].ok = "ok"
            /\ req.user # <<>>
       ELSE i = 1
  /\ (req.pc = "done" /\ req.resp.status = 200) =>
       /\ ~ValidationFailed(req)
       /\ \A i \in DOMAIN req.calls : req.calls[i].ok = "ok"
       /\ req.route \in VerifyingRoutes =>
            (req.calls # <<>> /\ req.user # <<>>)
       /\ req.route \in {"getProfile", "putProfile", "logout", "signup",
                         "login", "refresh"} =>
            Last(req.calls).op # "getUser"

\* C17, in a step: the store changes a row for a PUT /api/profile only when
\* the body passed validation and the bearer token was verified.
C17_OrderStep ==
  (Pending("update") /\ profiles' # profiles) =>
    /\ req.route = "putProfile"
    /\ ~ValidationFailed(req)
    /\ Len(req.calls) = 2
    /\ req.calls[1].op = "getUser"
    /\ req.calls[1].ok = "ok"

\* C17: every request goes through validation, then verification, then the
\* business call, then the response, a stage running only when every earlier
\* one succeeded; on PUT /api/profile the body is validated before the bearer
\* token is verified and the store is updated only after both.
C17_StageOrder == []C17_OrderInv /\ [][C17_OrderStep]_vars

\* C17's case: a PUT /api/profile with u2's valid token and a body the schema
\* refuses is answered 400 without the token being verified.
C17_Witness ==
  /\ req.pc = "done"
  /\ req.route = "putProfile"
  /\ req.header = Hdr("Bearer t2")
  /\ "u2" \in live
  /\ req.body = Json([name |-> Num("5")])
  /\ req.resp.status = 400
  /\ req.calls = <<>>

\* C18: whenever a profile request queries the store, the store client
\* carries the bearer token of the very Authorization header verifyAuth
\* accepted in that request, so the token the store sees and the id the query
\* is filtered by belong to one identity; no store client is built from a
\* header that is absent, malformed or not verified.
C18_ClientFromVerifiedHeader ==
  \A i \in DOMAIN req.calls :
    req.calls[i].op \in {"select", "update"} =>
      /\ ~HeaderLacksBearer(req.header)
      /\ req.header.val = "Bearer " \o req.calls[i].token
      /\ req.calls[1].op = "getUser"
      /\ req.calls[1].ok = "ok"
      /\ req.calls[1].token = req.calls[i].token
      /\ req.user # <<>>
      /\ AccessToken(req.user[1].id) = req.calls[i].token
      /\ req.calls[i].filter = req.user[1].id

\* C18's case: u2's GET /api/profile answered 200 from a query sent with t2
\* and filtered by u2.
C18_Witness ==
  /\ req.pc = "done"
  /\ req.route = "getProfile"
  /\ req.header = Hdr("Bearer t2")
  /\ req.resp.status = 200
  /\ Len(req.calls) = 2
  /\ req.calls[2].op = "select"
  /\ req.calls[2].token = "t2"
  /\ req.calls[2].filter = "u2"

\* The bearer token of a request's own Authorization header.
OwnToken(r) ==
  IF HeaderLacksBearer(r.header) THEN ""
  ELSE SubSeq(r.header.val, 8, Len(r.header.val))

\* The status a request is answered with, from its own inputs and the
\* answers to its own calls.
OwnOutcome(r) ==
  CASE ValidationFailed(r) -> 400
    [] HeaderLacksBearer(r.header) -> 401
    [] r.calls[1].ok = "error" \/ r.user = <<>> -> 401
    [] Len(r.calls) = 2 /\ r.calls[2].ok = "error" -> 400
    [] OTHER -> 200

\* A request on a protected route owes nothing to another request: every
\* call it makes carries the token of its own header, the identity it resolved
\* is the owner of that token and is the one its query is filtered by and its
\* answer is about, and its status follows from its own calls' answers.
Isolated(r) ==
  r.pc # "idle" =>
    /\ \A i \in DOMAIN r.calls :
         /\ r.calls[i].token = OwnToken(r)
         /\ r.calls[i].op \in {"select", "update"} =>
              AccessToken(r.calls[i].filter) = OwnToken(r)
    /\ r.user # <<>> =>
         /\ AccessToken(r.user[1].id) = OwnToken(r)
         /\ r.user[1].email = (IF EmailOf(r.user[1].id) = NULL THEN ""
                               ELSE EmailOf(r.user[1].id))
    /\ r.pc = "done" =>
         /\ r.resp.status = OwnOutcome(r)
         /\ (r.resp.status = 200 /\ r.route = "me") =>
              r.resp.body.user = r.user[1]
         /\ (r.resp.status = 200 /\ r.route \in ProfileRoutes) =>
              AccessToken(r.resp.body.profile.id) = OwnToken(r)

\* C16: handlers share no mutable state: with two requests in flight, taken
\* up in any order at their awaits, the answer to each depends only on that
\* request and on the answers to its own calls, and the identity resolved
\* for one is never seen or used by the other.
C16_Isolation == Isolated(req) /\ Isolated(parked)

\* C16's case: u1's GET /api/profile has been answered with u1's row while
\* u2's PUT /api/profile, verified, waits for the store.
C16_Witness ==
  /\ req.pc = "done"
  /\ req.route = "getProfile"
  /\ req.resp.status = 200
  /\ req.user[1].id = "u1"
  /\ req.resp.body.profile.id = "u1"
  /\ parked.pc = "await"
  /\ parked.route = "putProfile"
  /\ parked.user # <<>>
  /\ parked.user[1].id = "u2"
  /\ Last(parked.calls).op = "update"

\* C19, as stated: every busy flag of the frontend is false again once the
\* handler that set it has ended, on every path (success, API error, thrown
\* exception, missing session): saving after handleSave, loading after
\* handleSubmit, apiLoading after each fetch of the home page.
C19_AsStated ==
  ui.handler = "none" => (~ui.saving /\ ~ui.loading /\ ~ui.apiLoading)

\* C20, in a step: the update of a handleSave that follows a fetchProfile of
\* the same identity with no edit in between stores the name and bio that
\* were stored when the profile was fetched.
C20_SaveStep ==
  (/\ ui.handler = "handleSave"
   /\ ~ui.edited
   /\ ui.loaded # <<>>
   /\ Pending("update")
   /\ req'.pc = "done"
   /\ req'.resp.status = 200
   /\ ui.loaded[1].id = req.user[1].id) =>
     LET u == req.user[1].id
     IN  /\ profiles'[u].name = ui.loaded[1].name
         /\ profiles'[u].bio = ui.loaded[1].bio

\* C20, as stated: fetchProfile followed by handleSave with no edit in
\* between leaves the stored name and bio as they were, for every stored
\* profile, a null name or bio included.
C20_AsStated == [][C20_SaveStep]_vars

\* A response body without its timestamp.
SansTimestamp(body) == [f \in DOMAIN body \ {"timestamp"} |-> body[f]]

\* What a handler has asked of the provider, and with which token.
Asked(r) == [i \in DOMAIN r.calls |-> <<r.calls[i].op, r.calls[i].token>>]

\* C21: given the same request on /api/protected/me or /api/protected/data
\* and the same provider, the OpenAPI server (verifyAuth inside the handler)
\* and the plain server (authMiddleware before the handler) ask the provider
\* the same, are at the same point, and answer with the same status and the
\* same body apart from the timestamp, for every Authorization header and
\* every answer of getUser.
C21_ServersAgree ==
  (req.server = "openapi" /\ parked.server = "plain") =>
    /\ req.route = parked.route
    /\ req.header = parked.header
    /\ req.pc = parked.pc
    /\ Asked(req) = Asked(parked)
    /\ req.user = parked.user
    /\ req.pc = "done" =>
         /\ req.resp.status = parked.resp.status
         /\ SansTimestamp(req.resp.body) = SansTimestamp(parked.resp.body)

\* C21's case: both servers have answered u2's GET /api/protected/data 200;
\* the provider gave u2 with a null email, which both turned into ''.
C21_Witness ==
  /\ req.pc = "done"
  /\ parked.pc = "done"
  /\ req.server = "openapi"
  /\ parked.server = "plain"
  /\ req.route = "data"
  /\ req.header = Hdr("Bearer t2")
  /\ req.resp.status = 200
  /\ parked.resp.status = 200
  /\ parked.resp.body.data.secretMessage = "Hello , this is your secret data!"
  /\ req.resp.body.data = parked.resp.body.data

=============================================================================
